---- MODULE Spec2Model ----
(***************************************************************************)
(* Model of elexmodel's GaussianElectionModel (unit and aggregate          *)
(* prediction intervals, src/elexmodel/models/GaussianElectionModel.py)    *)
(* and of math_utils.weighted_median (src/elexmodel/utils/math_utils.py).  *)
(*                                                                         *)
(* Numbers.  Vote counts, residual bounds and Gaussian parameters are      *)
(* floats in the code.  They are modelled on a fixed-point grid: the       *)
(* integer v stands for the real number v / Scale.  total_voters is kept   *)
(* a whole number (an integer weight), so a product weight * value stays   *)
(* on the grid.                                                            *)
(*                                                                         *)
(* Tables.  A pandas DataFrame is a sequence of records, in row order.     *)
(* A group key is a tuple with one entry per column of the aggregation     *)
(* key list; Null (NaN in the code) marks a key column of a model row      *)
(* that was fit at a coarser level.                                        *)
(***************************************************************************)
EXTENDS Integers, Sequences, FiniteSets, TLC

VARIABLES
    units,                  \* the snapshot: one record per geographic unit
    conformalization_data,  \* the calibration sample, summarised per finest group
    cache,                  \* self.nonreporting_lower_bounds / _upper_bounds
    call,                   \* the call in progress or last finished, with its arguments
    result,                 \* what the last finished call returned or raised
    pc,                     \* position inside get_aggregate_prediction_intervals
    i,                      \* the loop variable of the hierarchical matching loop
    bounds,                 \* local `bounds` of the aggregate call
    gaussian_model,         \* local `gaussian_model` of the aggregate call
    modeled_bounds,         \* local `modeled_bounds` of the aggregate call
    iter,                   \* locals of the loop iteration that ran last
    history,                \* the last unit call and the last aggregate call
    wm                      \* the weighted_median call: arguments, position, result

vars == <<units, conformalization_data, cache, call, result, pc, i, bounds,
          gaussian_model, modeled_bounds, iter, history, wm>>

---------------------------------------------------------------------------
(* Bounds of the model *)

Scale == 20         \* grid resolution: the integer v stands for v / Scale
NumUnits == 2       \* units of a snapshot in Spec
MatchUnits == 3     \* nonreporting units of a snapshot in SpecMatch
MaxConf == 2        \* calibration points of one finest group
MaxLen == 3         \* length of x in weighted_median
HalfWeight == 2     \* weights are multiples of 1 / (2 * HalfWeight)

---------------------------------------------------------------------------
(* Arithmetic on the grid *)

Null == 0

Max(a, b) == IF a >= b THEN a ELSE b

RECURSIVE SumSeq(_)
SumSeq(s) == IF s = <<>> THEN 0 ELSE Head(s) + SumSeq(Tail(s))

RECURSIVE ISqrtFrom(_, _)
ISqrtFrom(n, r) == IF (r + 1) * (r + 1) > n THEN r ELSE ISqrtFrom(n, r + 1)

\* np.sqrt on the grid: the largest grid value whose square is <= v
Sqrt(v) == ISqrtFrom(v * Scale, 0)

\* Series.round(decimals=0): numpy rounds half to even
Round(v) ==
    LET q == v \div Scale
        r == v % Scale
    IN  IF 2 * r < Scale THEN q * Scale
        ELSE IF 2 * r > Scale THEN (q + 1) * Scale
        ELSE IF q % 2 = 0 THEN q * Scale ELSE (q + 1) * Scale

IsWhole(v) == v % Scale = 0

\* quantile = (3 + alpha) / 4, alpha and the quantile in thousandths
Quantile(alpha) == (3000 + alpha) \div 4

\* the standard normal quantile, in hundredths: ppf(0.975) = 1.96, ppf(0.95) = 1.64
ZScore(q) == IF q = 975 THEN 196 ELSE 164

\* stats.norm.ppf(q, loc, scale) = loc + scale * ppf(q)
NormPpf(q, loc, scale) == loc + (ZScore(q) * scale) \div 100

\* compute_inflate: sum of squares divided by square of sum
compute_inflate(x) ==
    (Scale * SumSeq([k \in 1..Len(x) |-> x[k] * x[k]])) \div (SumSeq(x) * SumSeq(x))

---------------------------------------------------------------------------
(* Keys and grouping *)

\* the values of the aggregation columns of the snapshot's units
FullKeys ==
    { [coarse |-> 1, fine |-> 1], [coarse |-> 1, fine |-> 2], [coarse |-> 2, fine |-> 1] }

\* the aggregation key lists: at most two levels are passed to the function
AggregateLists ==
    { <<"coarse">>, <<"fine">>, <<"coarse", "fine">>, <<"fine", "coarse">> }

KeyOf(keys, aggregate) == [k \in 1..Len(aggregate) |-> keys[aggregate[k]]]

\* lexicographic order of two key tuples of the same length
KeyLess(a, b) ==
    \E k \in 1..Len(a) : a[k] < b[k] /\ \A j \in 1..(k - 1) : a[j] = b[j]

RECURSIVE SortKeys(_)
SortKeys(S) ==
    IF S = {} THEN <<>>
    ELSE LET m == CHOOSE x \in S : \A y \in S \ {x} : KeyLess(x, y)
         IN  <<m>> \o SortKeys(S \ {m})

\* df.groupby(aggregate): the distinct keys of the rows, sorted
GroupKeys(rows, aggregate) ==
    SortKeys({ KeyOf(rows[j].keys, aggregate) : j \in 1..Len(rows) })

\* .agg(sum) of one column over the rows of one group
GroupSum(rows, aggregate, key, values) ==
    SumSeq([j \in 1..Len(rows) |->
                IF KeyOf(rows[j].keys, aggregate) = key THEN values[j] ELSE 0])

RECURSIVE Flatten(_)
Flatten(ss) == IF ss = <<>> THEN <<>> ELSE Head(ss) \o Flatten(Tail(ss))

\* left.merge(right, how="inner"): per left row, in order, its matching right rows
InnerMerge(left, right, on) ==
    Flatten([a \in 1..Len(left) |->
        LET hits == SelectSeq(right, LAMBDA m :
                        \A j \in on : left[a].key[j] = m.key[j])
        IN  [b \in 1..Len(hits) |-> [b |-> left[a], m |-> hits[b]]]])

---------------------------------------------------------------------------
(* The Gaussian residual model (elexmodel.distributions.GaussianModel).     *)
(* conformalization_data maps each finest group to [n, lower_bounds,       *)
(* upper_bounds]: its number of calibration points and their lower and     *)
(* upper nonconformity scores.                                             *)

MinPoints == 2      \* a group with fewer calibration points is not fit

RECURSIVE SumOver(_, _)
SumOver(S, f) ==
    IF S = {} THEN 0
    ELSE LET x == CHOOSE y \in S : TRUE IN f[x] + SumOver(S \ {x}, f)

\* the finest groups with calibration points whose first p key columns are k
ConfGroups(conf, aggregate, p, k) ==
    { g \in DOMAIN conf : conf[g].n > 0 /\ \A j \in 1..p : g[aggregate[j]] = k[j] }

ConfCount(conf, G) == SumOver(G, [g \in G |-> conf[g].n])

Spread(S) ==
    (CHOOSE a \in S : \A b \in S : a >= b) - (CHOOSE a \in S : \A b \in S : a <= b)

\* the row fit to the calibration points pooled over the groups G, keyed by k
\* on the first p columns of the key list and null on the others
FitRow(conf, aggregate, p, k) ==
    LET G == ConfGroups(conf, aggregate, p, k)
        N == ConfCount(conf, G)
    IN  [ key |-> [j \in 1..Len(aggregate) |-> IF j <= p THEN k[j] ELSE Null],
          mu_lower_bound |-> SumOver(G, [g \in G |-> conf[g].n * conf[g].lower_bounds]) \div N,
          sigma_lower_bound |-> Scale + Spread({ conf[g].lower_bounds : g \in G }),
          mu_upper_bound |-> SumOver(G, [g \in G |-> conf[g].n * conf[g].upper_bounds]) \div N,
          sigma_upper_bound |-> Scale + Spread({ conf[g].upper_bounds : g \in G }),
          var_inflate |-> compute_inflate([j \in 1..N |-> 1]) ]

\* the rows fit at level p: one per group of the first p columns with enough points
LevelRows(conf, aggregate, p) ==
    LET ks == SortKeys({ KeyOf(g, SubSeq(aggregate, 1, p)) :
                            g \in { h \in DOMAIN conf : conf[h].n > 0 } })
        fit == SelectSeq(ks, LAMBDA k :
                   ConfCount(conf, ConfGroups(conf, aggregate, p, k)) >= MinPoints)
    IN  [r \in 1..Len(fit) |-> FitRow(conf, aggregate, p, fit[r])]

\* GaussianModel(...).fit(conformalization_data, ..., aggregate, top_level):
\* the rows of every level, finest first, and with top_level (or an empty key
\* list) the one row fit to all calibration points
GaussianModelFit(conf, aggregate, top_level) ==
    LET n == Len(aggregate)
    IN  Flatten([q \in 1..n |-> LevelRows(conf, aggregate, n + 1 - q)])
        \o (IF top_level \/ n = 0 THEN <<FitRow(conf, aggregate, 0, <<>>)>> ELSE <<>>)

---------------------------------------------------------------------------
(* get_unit_prediction_intervals *)

Estimands == {"dem", "gop"}

reporting_units == SelectSeq(units, LAMBDA u : u.status = "reporting")
nonreporting_units == SelectSeq(units, LAMBDA u : u.status = "nonreporting")
unexpected_units == SelectSeq(units, LAMBDA u : u.status = "unexpected")

\* BaseElectionModel.get_unit_prediction_interval_bounds: the unadjusted
\* residual bounds of every nonreporting unit, and the conformalization sample
get_unit_prediction_interval_bounds(nonreporting, conf, estimand) ==
    [ lower |-> [j \in 1..Len(nonreporting) |-> nonreporting[j].cols[estimand].lower],
      upper |-> [j \in 1..Len(nonreporting) |-> nonreporting[j].cols[estimand].upper],
      conformalization |-> conf ]

\* lines 47-57: the corrections of the single-unit Gaussian model
UnitCorrections(gm, alpha) ==
    [ lower_correction |->
          NormPpf(Quantile(alpha), gm.mu_lower_bound,
                  (Sqrt(gm.var_inflate + Scale) * gm.sigma_lower_bound) \div Scale),
      upper_correction |->
          NormPpf(Quantile(alpha), gm.mu_upper_bound,
                  (Sqrt(gm.var_inflate + Scale) * gm.sigma_upper_bound) \div Scale) ]

\* lines 59-61: what the call saves on the instance
UnitCache(prediction_intervals) ==
    [ set |-> TRUE,
      nonreporting_lower_bounds |-> prediction_intervals.lower,
      nonreporting_upper_bounds |-> prediction_intervals.upper ]

\* lines 63-78: correct, un-normalize, shift to vote space, floor at results
UnitLower(prediction_intervals, nonreporting, estimand, corr) ==
    [j \in 1..Len(nonreporting) |->
        Max((prediction_intervals.lower[j] - corr.lower_correction)
                * nonreporting[j].cols[estimand].total_voters
              + nonreporting[j].cols[estimand].last_election_results,
            nonreporting[j].cols[estimand].results)]

UnitUpper(prediction_intervals, nonreporting, estimand, corr) ==
    [j \in 1..Len(nonreporting) |->
        Max((prediction_intervals.upper[j] + corr.upper_correction)
                * nonreporting[j].cols[estimand].total_voters
              + nonreporting[j].cols[estimand].last_election_results,
            nonreporting[j].cols[estimand].results)]

RoundAll(s) == [j \in 1..Len(s) |-> Round(s[j])]

\* lines 29-82: the value the unit call returns
UnitReturn(nonreporting, conf, alpha, estimand) ==
    LET prediction_intervals == get_unit_prediction_interval_bounds(nonreporting, conf, estimand)
        gm == GaussianModelFit(prediction_intervals.conformalization, <<>>, TRUE)[1]
        corr == UnitCorrections(gm, alpha)
    IN  [ kind |-> "PredictionIntervals",
          lower |-> RoundAll(UnitLower(prediction_intervals, nonreporting, estimand, corr)),
          upper |-> RoundAll(UnitUpper(prediction_intervals, nonreporting, estimand, corr)) ]

---------------------------------------------------------------------------
(* get_aggregate_prediction_intervals: the tables built before the loop *)

\* BaseElectionModel._get_reporting_aggregate_votes: results summed per group
\* over the reporting and the unexpected units
get_reporting_aggregate_votes(reporting, unexpected, aggregate, estimand) ==
    LET rows == reporting \o unexpected
        ks == GroupKeys(rows, aggregate)
    IN  [r \in 1..Len(ks) |->
            [ key |-> ks[r],
              results |-> GroupSum(rows, aggregate, ks[r],
                      [j \in 1..Len(rows) |-> rows[j].cols[estimand].results]) ]]

\* BaseElectionModel._get_nonreporting_aggregate_votes: results summed per group
\* over the nonreporting units
get_nonreporting_aggregate_votes(nonreporting, aggregate, estimand) ==
    LET ks == GroupKeys(nonreporting, aggregate)
    IN  [r \in 1..Len(ks) |->
            [ key |-> ks[r],
              results |-> GroupSum(nonreporting, aggregate, ks[r],
                      [j \in 1..Len(nonreporting) |-> nonreporting[j].cols[estimand].results]) ]]

\* lines 108-112
last_election(nonreporting, aggregate, estimand) ==
    LET ks == GroupKeys(nonreporting, aggregate)
    IN  [r \in 1..Len(ks) |->
            [ key |-> ks[r],
              last_election_results |->
                  GroupSum(nonreporting, aggregate, ks[r],
                      [j \in 1..Len(nonreporting) |-> nonreporting[j].cols[estimand].last_election_results]) ]]

\* lines 131-156: the cached unit bounds are assigned to the rows by position,
\* un-normalized and summed per group
AggregateBounds(nonreporting, aggregate, estimand, saved) ==
    LET rows == [j \in 1..Len(nonreporting) |->
                    [ keys |-> nonreporting[j].keys,
                      total_voters |-> nonreporting[j].cols[estimand].total_voters,
                      nonreporting_lower_bounds |-> saved.nonreporting_lower_bounds[j],
                      nonreporting_upper_bounds |-> saved.nonreporting_upper_bounds[j] ]]
        ks == GroupKeys(rows, aggregate)
    IN  [r \in 1..Len(ks) |->
            [ key |-> ks[r],
              nonreporting_aggregate_lower_bound |->
                  GroupSum(rows, aggregate, ks[r],
                      [j \in 1..Len(rows) |-> rows[j].total_voters * rows[j].nonreporting_lower_bounds]),
              nonreporting_aggregate_upper_bound |->
                  GroupSum(rows, aggregate, ks[r],
                      [j \in 1..Len(rows) |-> rows[j].total_voters * rows[j].nonreporting_upper_bounds]),
              nonreporting_weight_sum |->
                  GroupSum(rows, aggregate, ks[r],
                      [j \in 1..Len(rows) |-> rows[j].total_voters]),
              nonreporting_weight_ssum |->
                  GroupSum(rows, aggregate, ks[r],
                      [j \in 1..Len(rows) |-> rows[j].total_voters * rows[j].total_voters]) ]]

---------------------------------------------------------------------------
(* The hierarchical matching loop, lines 170-230 *)

\* line 170: bounds.merge(gaussian_model, how="inner", on=aggregate)
FirstMerge(bnds, gm, aggregate) == InnerMerge(bnds, gm, 1..Len(aggregate))

\* RemainingModels with any(axis=1) in place of all(axis=1)
RemainingModelsAny(gm, aggregate, k) ==
    SelectSeq(gm, LAMBDA m :
        \E j \in (Len(aggregate) - k + 1)..Len(aggregate) : m.key[j] = Null)

\* lines 191-195: the model rows null on the last k columns of the key list
RemainingModels(gm, aggregate, k) ==
    SelectSeq(gm, LAMBDA m :
        \A j \in (Len(aggregate) - k + 1)..Len(aggregate) : m.key[j] = Null)

\* lines 198-200
NextAggregate(aggregate, k) == SubSeq(aggregate, 1, Len(aggregate) - k)

\* lines 207-209: the left merge with indicator has one row per bounds row
\* without a match and one per (bounds row, matching modeled row); the
\* positions of its rows that are not 'both'
RemainingBoundsIdx(bnds, modeled) ==
    LET marks == Flatten([a \in 1..Len(bnds) |->
                    LET hits == SelectSeq(modeled, LAMBDA mb : mb.b.key = bnds[a].key)
                    IN  IF hits = <<>> THEN <<FALSE>>
                        ELSE [h \in 1..Len(hits) |-> TRUE]])
        RECURSIVE Pick(_)
        Pick(p) == IF p > Len(marks) THEN <<>>
                   ELSE (IF marks[p] THEN <<>> ELSE <<p>>) \o Pick(p + 1)
    IN  Pick(1)

\* RemainingBounds that does not leave out the groups already matched
RemainingBoundsAll(bnds, modeled) == bnds

\* line 211: bounds.iloc[remaining_bounds_idx]
RemainingBounds(bnds, modeled) ==
    LET idx == RemainingBoundsIdx(bnds, modeled)
    IN  [r \in 1..Len(idx) |-> bnds[idx[r]]]

\* line 225: remaining_bounds.merge(remaining_models, how="cross")
CrossMerge(remaining_bounds, remaining_models) ==
    InnerMerge(remaining_bounds, remaining_models, {})

\* NextMerge that ignores the join key
NextMergeCross(remaining_bounds, remaining_models, next_aggregate) ==
    CrossMerge(remaining_bounds, remaining_models)

\* line 228: remaining_bounds.merge(remaining_models, how="inner", on=next_aggregate)
NextMerge(remaining_bounds, remaining_models, next_aggregate) ==
    InnerMerge(remaining_bounds, remaining_models, 1..Len(next_aggregate))

\* lines 223-228
RemainingBoundsWithModels(remaining_bounds, remaining_models, next_aggregate) ==
    IF Len(next_aggregate) = 0
    THEN CrossMerge(remaining_bounds, remaining_models)
    ELSE NextMerge(remaining_bounds, remaining_models, next_aggregate)

\* line 224: assert remaining_models.shape[0] <= 1
AssertionHolds(gm, aggregate, k) ==
    Len(NextAggregate(aggregate, k)) = 0 => Len(RemainingModels(gm, aggregate, k)) <= 1

\* one iteration of the loop: the locals it computes
Iteration(bnds, gm, aggregate, modeled, k) ==
    LET remaining_models == RemainingModels(gm, aggregate, k)
        next_aggregate == NextAggregate(aggregate, k)
        remaining_bounds == RemainingBounds(bnds, modeled)
    IN  [ i |-> k,
          next_aggregate |-> next_aggregate,
          remaining_models |-> remaining_models,
          remaining_bounds |-> remaining_bounds,
          modeled_before |-> modeled,
          remaining_bounds_w_models |->
              RemainingBoundsWithModels(remaining_bounds, remaining_models, next_aggregate) ]

\* line 230: pd.concat([modeled_bounds, remaining_bounds_w_models])
LoopBody(bnds, gm, aggregate, modeled, k) ==
    modeled \o Iteration(bnds, gm, aggregate, modeled, k).remaining_bounds_w_models

\* the whole loop, for i in range(k, len(aggregate) + 1); raised when the
\* assertion of line 224 fails
RECURSIVE MatchLoop(_, _, _, _, _)
MatchLoop(bnds, gm, aggregate, modeled, k) ==
    IF k > Len(aggregate) THEN [raised |-> FALSE, modeled_bounds |-> modeled]
    ELSE IF ~AssertionHolds(gm, aggregate, k)
    THEN [raised |-> TRUE, modeled_bounds |-> modeled]
    ELSE MatchLoop(bnds, gm, aggregate, LoopBody(bnds, gm, aggregate, modeled, k), k + 1)

---------------------------------------------------------------------------
(* get_aggregate_prediction_intervals, after the loop: lines 232-282 *)

\* lines 235-250: the corrected residual-space bounds lb, ub of every matched row
ModeledIntervals(modeled, alpha) ==
    [r \in 1..Len(modeled) |->
        LET x == modeled[r].b
            m == modeled[r].m
            spread == Sqrt(x.nonreporting_weight_ssum * Scale
                           + m.var_inflate * x.nonreporting_weight_sum
                                           * x.nonreporting_weight_sum)
            lb_mean == x.nonreporting_weight_sum * m.mu_lower_bound
            lb_sd == (m.sigma_lower_bound * spread) \div Scale
            ub_mean == x.nonreporting_weight_sum * m.mu_upper_bound
            ub_sd == (m.sigma_upper_bound * spread) \div Scale
        IN  [ key |-> x.key,
              lb |-> x.nonreporting_aggregate_lower_bound
                         - NormPpf(Quantile(alpha), lb_mean, lb_sd),
              ub |-> x.nonreporting_aggregate_upper_bound
                         + NormPpf(Quantile(alpha), ub_mean, ub_sd) ]]

\* lines 257-268: last_election joined to the matched rows; np.maximum pairs
\* row r of the join with row r of aggregate_nonreporting_votes
AggregatePredictionIntervals(last, intervals, aggregate_nonreporting_votes) ==
    LET joined == InnerMerge(last, intervals,
                             IF last = <<>> THEN {} ELSE DOMAIN last[1].key)
    IN  [r \in 1..Len(joined) |->
            [ key |-> joined[r].b.key,
              predicted_lower |->
                  Max(joined[r].b.last_election_results + joined[r].m.lb,
                      aggregate_nonreporting_votes[r].results),
              predicted_upper |->
                  Max(joined[r].b.last_election_results + joined[r].m.ub,
                      aggregate_nonreporting_votes[r].results) ]]

\* lines 271-280: outer merge with the observed totals, missing values 0,
\* predicted + observed, sorted by the aggregation keys
AggregateData(aggregate_votes, aggregate_prediction_intervals) ==
    LET ks == SortKeys({ aggregate_votes[r].key : r \in 1..Len(aggregate_votes) }
                       \cup { aggregate_prediction_intervals[r].key :
                                  r \in 1..Len(aggregate_prediction_intervals) })
        NoVotes(k) == [key |-> k, results |-> 0]
        NoPrediction(k) == [key |-> k, predicted_lower |-> 0, predicted_upper |-> 0]
    IN  Flatten([q \in 1..Len(ks) |->
            LET v == SelectSeq(aggregate_votes, LAMBDA x : x.key = ks[q])
                a == SelectSeq(aggregate_prediction_intervals, LAMBDA x : x.key = ks[q])
                vs == IF v = <<>> THEN <<NoVotes(ks[q])>> ELSE v
                as == IF a = <<>> THEN <<NoPrediction(ks[q])>> ELSE a
            IN  Flatten([c \in 1..Len(vs) |->
                    [d \in 1..Len(as) |->
                        [ key |-> ks[q],
                          lower |-> as[d].predicted_lower + vs[c].results,
                          upper |-> as[d].predicted_upper + vs[c].results ]]])])

Column(rows, col) == [r \in 1..Len(rows) |-> rows[r][col]]

\* lines 127-129: the return taken when there are no nonreporting units
ShortCircuitReturn(aggregate_votes) ==
    [ kind |-> "tuple",
      key |-> Column(aggregate_votes, "key"),
      lower |-> Column(aggregate_votes, "results"),
      upper |-> Column(aggregate_votes, "results") ]

\* line 282
FinalReturn(aggregate_data) ==
    [ kind |-> "PredictionIntervals",
      key |-> Column(aggregate_data, "key"),
      lower |-> RoundAll(Column(aggregate_data, "lower")),
      upper |-> RoundAll(Column(aggregate_data, "upper")) ]

Raise(error) == [kind |-> "raise", error |-> error]

\* lines 232-282: the value returned once the loop has built modeled_bounds
AfterLoop(reporting, nonreporting, unexpected, aggregate, alpha, estimand, modeled) ==
    FinalReturn(
        AggregateData(
            get_reporting_aggregate_votes(reporting, unexpected, aggregate, estimand),
            AggregatePredictionIntervals(
                last_election(nonreporting, aggregate, estimand),
                ModeledIntervals(modeled, alpha),
                get_nonreporting_aggregate_votes(nonreporting, aggregate, estimand))))

\* whether the instance has the attributes the unit call sets (lines 60-61);
\* reading them when unset raises AttributeError (lines 133-134)
CacheSet(saved) == saved.set

\* AggregateReturn that reads the cached bounds before it tests for an empty
\* nonreporting set
AggregateReturnCacheFirst(reporting, nonreporting, unexpected, aggregate, alpha, conf, estimand, saved) ==
    LET gm == GaussianModelFit(conf, aggregate, TRUE)
    IN  IF ~CacheSet(saved) THEN Raise("AttributeError")
        ELSE IF Len(nonreporting) = 0
        THEN ShortCircuitReturn(
                 get_reporting_aggregate_votes(reporting, unexpected, aggregate, estimand))
        ELSE LET bnds == AggregateBounds(nonreporting, aggregate, estimand, saved)
                 loop == MatchLoop(bnds, gm, aggregate, FirstMerge(bnds, gm, aggregate), 1)
             IN  IF loop.raised THEN Raise("AssertionError")
                 ELSE AfterLoop(reporting, nonreporting, unexpected, aggregate, alpha,
                                estimand, loop.modeled_bounds)

\* lines 100-282: the value the aggregate call returns, or what it raises
AggregateReturn(reporting, nonreporting, unexpected, aggregate, alpha, conf, estimand, saved) ==
    LET gm == GaussianModelFit(conf, aggregate, TRUE)
    IN  IF Len(nonreporting) = 0
        THEN ShortCircuitReturn(
                 get_reporting_aggregate_votes(reporting, unexpected, aggregate, estimand))
        ELSE IF ~CacheSet(saved) THEN Raise("AttributeError")
        ELSE LET bnds == AggregateBounds(nonreporting, aggregate, estimand, saved)
                 loop == MatchLoop(bnds, gm, aggregate, FirstMerge(bnds, gm, aggregate), 1)
             IN  IF loop.raised THEN Raise("AssertionError")
                 ELSE AfterLoop(reporting, nonreporting, unexpected, aggregate, alpha,
                                estimand, loop.modeled_bounds)

---------------------------------------------------------------------------
(* The inputs *)

Alphas == {900}

\* the <field>_<estimand> columns of a nonreporting unit, with the residual
\* bounds the base interval computation gives it
NonreportingCols ==
    { [ total_voters |-> 1, last_election_results |-> 3 * Scale, results |-> 0,
        lower |-> -Scale, upper |-> Scale ],
      [ total_voters |-> 2, last_election_results |-> 0,
        results |-> Scale + Scale \div 4, lower |-> 0, upper |-> 0 ],
      [ total_voters |-> 2, last_election_results |-> 3 * Scale, results |-> Scale,
        lower |-> 0, upper |-> Scale \div 2 ] }

\* the columns of a unit whose results are in
ReportedCols(results) ==
    [ total_voters |-> 2, last_election_results |-> 2 * Scale, results |-> results,
      lower |-> 0, upper |-> 0 ]

\* every unit's columns for the second estimand
GopCols ==
    [ total_voters |-> 1, last_election_results |-> 2 * Scale, results |-> Scale,
      lower |-> -2 * Scale, upper |-> 2 * Scale ]

SpecKeys == { [coarse |-> 1, fine |-> 1], [coarse |-> 1, fine |-> 2] }

Unit(keys, status, dem) ==
    [ keys |-> keys, status |-> status, cols |-> [dem |-> dem, gop |-> GopCols] ]

UnitChoices ==
    { Unit(k, "nonreporting", c) : k \in SpecKeys, c \in NonreportingCols }
    \cup { Unit(k, "reporting", ReportedCols(r)) :
               k \in SpecKeys, r \in {Scale + Scale \div 2, 2 * Scale} }
    \cup { Unit(k, "unexpected", ReportedCols(Scale)) : k \in SpecKeys }

SpecAggregates == { <<"coarse">>, <<"coarse", "fine">> }

\* calibration samples: every group full with all scores s, or a single
\* point in one group
ConfChoices ==
    { [g \in FullKeys |-> [n |-> MaxConf, lower_bounds |-> s, upper_bounds |-> s]] :
          s \in {-3 * Scale, Scale \div 2} }
    \cup { [g \in FullKeys |->
               [ n |-> IF g = [coarse |-> 1, fine |-> 1] THEN 1 ELSE 0,
                 lower_bounds |-> -3 * Scale, upper_bounds |-> -3 * Scale ]] }

\* calibration samples of the matching runs: any counts, not all zero, and
\* scores that tell the groups apart
MatchConfChoices ==
    { c \in [FullKeys -> [ n : 0..MaxConf ]] : \E g \in FullKeys : c[g].n > 0 }

MatchConf(c) ==
    [g \in FullKeys |->
        [ n |-> c[g].n,
          lower_bounds |-> (3 * g.coarse + g.fine) * Scale,
          upper_bounds |-> (3 * g.coarse + 2 * g.fine) * Scale ]]

MatchUnitChoices ==
    { Unit(k, "nonreporting",
           [ total_voters |-> 1, last_election_results |-> 3 * Scale, results |-> 0,
             lower |-> -Scale, upper |-> Scale ]) : k \in FullKeys }

---------------------------------------------------------------------------
(* The instance: calls that run to completion *)

NoCache == [set |-> FALSE]
NoCall == [kind |-> "none"]
NoResult == [kind |-> "none"]
NoIter == [i |-> 0]
NoWm == [pc |-> "none"]

Init ==
    /\ units \in UNION { [1..n -> UnitChoices] : n \in 1..NumUnits }
    /\ conformalization_data \in ConfChoices
    /\ cache = NoCache
    /\ call = NoCall
    /\ result = NoResult
    /\ pc = "idle"
    /\ i = 0
    /\ bounds = <<>>
    /\ gaussian_model = <<>>
    /\ modeled_bounds = <<>>
    /\ iter = NoIter
    /\ history = [unit |-> "none"]
    /\ wm = NoWm

\* get_unit_prediction_intervals(reporting_units, nonreporting_units, alpha, estimand)
UnitCall(alpha, estimand) ==
    /\ pc \in {"idle", "returned", "raised"}
    /\ call' = [kind |-> "unit", alpha |-> alpha, estimand |-> estimand]
    /\ cache' = UnitCache(get_unit_prediction_interval_bounds(
                              nonreporting_units, conformalization_data, estimand))
    /\ result' = UnitReturn(nonreporting_units, conformalization_data, alpha, estimand)
    /\ history' = [unit |-> estimand]
    /\ pc' = "returned"
    /\ UNCHANGED <<units, conformalization_data, i, bounds, gaussian_model,
                   modeled_bounds, iter, wm>>

\* AggregateCall that drops the cached bounds once it has used them
AggregateCallClearsCache(aggregate, alpha, estimand) ==
    /\ pc \in {"idle", "returned", "raised"}
    /\ call' = [ kind |-> "aggregate", aggregate |-> aggregate, alpha |-> alpha,
                 estimand |-> estimand ]
    /\ result' = AggregateReturn(reporting_units, nonreporting_units, unexpected_units,
                                 aggregate, alpha, conformalization_data, estimand, cache)
    /\ pc' = IF result'.kind = "raise" THEN "raised" ELSE "returned"
    /\ cache' = NoCache
    /\ UNCHANGED <<units, conformalization_data, i, bounds, gaussian_model,
                   modeled_bounds, iter, history, wm>>

\* get_aggregate_prediction_intervals(reporting_units, nonreporting_units,
\*     unexpected_units, aggregate, alpha, conformalization_data, estimand, ...)
AggregateCall(aggregate, alpha, estimand) ==
    /\ pc \in {"idle", "returned", "raised"}
    /\ call' = [ kind |-> "aggregate", aggregate |-> aggregate, alpha |-> alpha,
                 estimand |-> estimand ]
    /\ result' = AggregateReturn(reporting_units, nonreporting_units, unexpected_units,
                                 aggregate, alpha, conformalization_data, estimand, cache)
    /\ pc' = IF result'.kind = "raise" THEN "raised" ELSE "returned"
    /\ UNCHANGED <<units, conformalization_data, cache, i, bounds, gaussian_model,
                   modeled_bounds, iter, history, wm>>

Next ==
    \/ \E alpha \in Alphas, estimand \in Estimands : UnitCall(alpha, estimand)
    \/ \E aggregate \in SpecAggregates, alpha \in Alphas, estimand \in Estimands :
           AggregateCall(aggregate, alpha, estimand)

Spec == Init /\ [][Next]_vars

---------------------------------------------------------------------------
(* The aggregate call step by step: lines 100-170, one loop iteration at a *)
(* time, lines 232-282.  i is the value the loop variable takes next.      *)

InitMatch ==
    /\ units \in UNION { [1..n -> MatchUnitChoices] : n \in 1..MatchUnits }
    /\ conformalization_data \in { MatchConf(c) : c \in MatchConfChoices }
    /\ cache = NoCache
    /\ call = NoCall
    /\ result = NoResult
    /\ pc = "idle"
    /\ i = 0
    /\ bounds = <<>>
    /\ gaussian_model = <<>>
    /\ modeled_bounds = <<>>
    /\ iter = NoIter
    /\ history = [unit |-> "none"]
    /\ wm = NoWm

\* lines 100-170: up to the first merge
AggregateBegin(aggregate, alpha, estimand) ==
    /\ pc \in {"idle", "returned", "raised"}
    /\ call' = [ kind |-> "aggregate", aggregate |-> aggregate, alpha |-> alpha,
                 estimand |-> estimand ]
    /\ iter' = NoIter
    /\ IF Len(nonreporting_units) = 0 \/ ~CacheSet(cache)
       THEN /\ result' = AggregateReturn(reporting_units, nonreporting_units,
                             unexpected_units, aggregate, alpha, conformalization_data,
                             estimand, cache)
            /\ pc' = IF result'.kind = "raise" THEN "raised" ELSE "returned"
            /\ i' = 0
            /\ bounds' = <<>>
            /\ gaussian_model' = <<>>
            /\ modeled_bounds' = <<>>
       ELSE /\ result' = NoResult
            /\ pc' = "loop"
            /\ i' = 1
            /\ gaussian_model' = GaussianModelFit(conformalization_data, aggregate, TRUE)
            /\ bounds' = AggregateBounds(nonreporting_units, aggregate, estimand, cache)
            /\ modeled_bounds' = FirstMerge(bounds', gaussian_model', aggregate)
    /\ UNCHANGED <<units, conformalization_data, cache, history, wm>>

\* lines 178-230: one iteration
LoopStep ==
    /\ pc = "loop"
    /\ i <= Len(call.aggregate)
    /\ IF AssertionHolds(gaussian_model, call.aggregate, i)
       THEN /\ iter' = Iteration(bounds, gaussian_model, call.aggregate, modeled_bounds, i)
            /\ modeled_bounds' = LoopBody(bounds, gaussian_model, call.aggregate,
                                          modeled_bounds, i)
            /\ i' = i + 1
            /\ UNCHANGED <<pc, result>>
       ELSE /\ pc' = "raised"
            /\ result' = Raise("AssertionError")
            /\ UNCHANGED <<i, modeled_bounds, iter>>
    /\ UNCHANGED <<units, conformalization_data, cache, call, bounds, gaussian_model,
                   history, wm>>

\* lines 232-282
AggregateEnd ==
    /\ pc = "loop"
    /\ i > Len(call.aggregate)
    /\ result' = AfterLoop(reporting_units, nonreporting_units, unexpected_units,
                           call.aggregate, call.alpha, call.estimand, modeled_bounds)
    /\ pc' = "returned"
    /\ UNCHANGED <<units, conformalization_data, cache, call, i, bounds, gaussian_model,
                   modeled_bounds, iter, history, wm>>

NextMatch ==
    \/ \E alpha \in Alphas : UnitCall(alpha, "dem")
    \/ \E aggregate \in AggregateLists, alpha \in Alphas :
           AggregateBegin(aggregate, alpha, "dem")
    \/ LoopStep
    \/ AggregateEnd

SpecMatch == InitMatch /\ [][NextMatch]_vars

---------------------------------------------------------------------------
(* Properties of the hierarchical matching loop (SpecMatch) *)

Keys(rows) == { rows[r].key : r \in 1..Len(rows) }
ModeledKeys(modeled) == { modeled[r].b.key : r \in 1..Len(modeled) }

\* how many rows of modeled are rows of the group key
Matches(modeled, key) == Cardinality({ r \in 1..Len(modeled) : modeled[r].b.key = key })

\* the loop of the aggregate call ran all its iterations
LoopFinished ==
    /\ call.kind = "aggregate"
    /\ pc \in {"loop", "returned"}
    /\ i > Len(call.aggregate)

ModelParams(m) ==
    [ mu_lower_bound |-> m.mu_lower_bound, sigma_lower_bound |-> m.sigma_lower_bound,
      mu_upper_bound |-> m.mu_upper_bound, sigma_upper_bound |-> m.sigma_upper_bound,
      var_inflate |-> m.var_inflate ]

\* the model row a group with coarse key value c gets when the model is fit
\* and matched at the coarse level alone
CoarseAlone(c) ==
    LET gm == GaussianModelFit(conformalization_data, <<"coarse">>, TRUE)
        bnds == <<[key |-> <<c>>]>>
    IN  MatchLoop(bnds, gm, <<"coarse">>, FirstMerge(bnds, gm, <<"coarse">>), 1).modeled_bounds[1].m

\* the value of the coarse column in a group key of the key list
CoarseValue(key, aggregate) ==
    key[CHOOSE k \in 1..Len(aggregate) : aggregate[k] = "coarse"]

\* every matched row of a group without a directly fitted model row carries
\* the parameters, and so the lb and ub, of the coarse-level fit of its
\* coarse key value
FallbackIsCoarseFit ==
    \A q \in 1..Len(modeled_bounds) :
        LET b == modeled_bounds[q].b
            coarse == CoarseAlone(CoarseValue(b.key, call.aggregate))
        IN  (\A r \in 1..Len(gaussian_model) : gaussian_model[r].key # b.key) =>
                /\ ModelParams(modeled_bounds[q].m) = ModelParams(coarse)
                /\ ModeledIntervals(<<modeled_bounds[q]>>, call.alpha)
                       = ModeledIntervals(<<[b |-> b, m |-> coarse]>>, call.alpha)

\* C7 as stated: with the key list [fine, coarse], a fine group without a
\* directly fitted model row is matched to the coarse-level fit of its coarse
\* key value.
C7_FineFirst ==
    (LoopFinished /\ call.aggregate = <<"fine", "coarse">>) => FallbackIsCoarseFit

\* C7 amended: with the key list ordered coarse first, [coarse, fine], a fine
\* group without a directly fitted model row is matched to the coarse-level
\* fit of its coarse key value, and its lb and ub are those computed from it.
C7_CoarseFirst ==
    (LoopFinished /\ call.aggregate = <<"coarse", "fine">>) => FallbackIsCoarseFit

\* a [coarse, fine] run in which a group fell back to the row fit for its
\* coarse key value, which is not the top-level row
C7_Witness ==
    /\ LoopFinished
    /\ call.aggregate = <<"coarse", "fine">>
    /\ \E q \in 1..Len(modeled_bounds) :
           /\ \A r \in 1..Len(gaussian_model) :
                  gaussian_model[r].key # modeled_bounds[q].b.key
           /\ modeled_bounds[q].m.key = <<modeled_bounds[q].b.key[1], Null>>
           /\ ModelParams(modeled_bounds[q].m)
                  # ModelParams(gaussian_model[Len(gaussian_model)])

\* C10: next_aggregate is empty in the last iteration only; there the rows
\* with every key null number one at most, no AssertionError is raised, and
\* that row is joined once to every group unmatched before the iteration and
\* to no group matched before it.
C10_TopLevelFallback ==
    /\ (result.kind = "raise" => result.error # "AssertionError")
    /\ (call.kind = "aggregate" /\ iter.i > 0) =>
           /\ (Len(iter.next_aggregate) = 0) <=> (iter.i = Len(call.aggregate))
           /\ iter.i = Len(call.aggregate) =>
                  /\ Len(iter.remaining_models) <= 1
                  /\ \A r \in 1..Len(iter.remaining_models) :
                         \A j \in 1..Len(call.aggregate) :
                             iter.remaining_models[r].key[j] = Null
                  /\ \A r \in 1..Len(bounds) :
                         Matches(iter.remaining_bounds_w_models, bounds[r].key)
                             = IF bounds[r].key \in ModeledKeys(iter.modeled_before)
                               THEN 0 ELSE 1
                  /\ \A q \in 1..Len(iter.remaining_bounds_w_models) :
                         iter.remaining_bounds_w_models[q].m = iter.remaining_models[1]

\* the last iteration of a two-level run joined the top-level row to a group
\* while another group had been matched at a finer level
C10_Witness ==
    /\ call.kind = "aggregate"
    /\ iter.i = 2
    /\ Len(call.aggregate) = 2
    /\ Len(iter.next_aggregate) = 0
    /\ Len(iter.remaining_bounds_w_models) >= 1
    /\ Len(iter.modeled_before) >= 1

---------------------------------------------------------------------------
(* Properties of the unit and aggregate calls (Spec) *)

Returned == result.kind \in {"PredictionIntervals", "tuple"}

\* results_<estimand> summed over the units of a group that have one of the statuses
GroupResults(statuses, aggregate, estimand, key) ==
    SumSeq([j \in 1..Len(units) |->
               IF units[j].status \in statuses /\ KeyOf(units[j].keys, aggregate) = key
               THEN units[j].cols[estimand].results ELSE 0])

\* the residual bounds the base interval computation gives the nonreporting units
BaseBounds(estimand) ==
    [ set |-> TRUE,
      nonreporting_lower_bounds |->
          [j \in 1..Len(nonreporting_units) |-> nonreporting_units[j].cols[estimand].lower],
      nonreporting_upper_bounds |->
          [j \in 1..Len(nonreporting_units) |-> nonreporting_units[j].cols[estimand].upper] ]

\* C2: an aggregate call with nonreporting units on an instance whose cache
\* was never populated, or was populated by a unit call for another
\* estimand's data, raises an error.
C2_MissingOrStaleCacheRaises ==
    ( /\ call.kind = "aggregate"
      /\ Len(nonreporting_units) > 0
      /\ (~CacheSet(cache) \/ history.unit # call.estimand) )
        => result.kind = "raise"

\* C3: every aggregate group returned has upper >= lower, and lower and upper
\* both >= the sum of results over all the units of the group.
C3_AggregateOrderAndFloor ==
    (call.kind = "aggregate" /\ Returned) =>
        \A r \in 1..Len(result.key) :
            LET seen == GroupResults({"reporting", "unexpected", "nonreporting"},
                                     call.aggregate, call.estimand, result.key[r])
            IN  /\ result.upper[r] >= result.lower[r]
                /\ result.lower[r] >= seen
                /\ result.upper[r] >= seen

\* C4: every nonreporting unit returned by the unit call has upper >= lower,
\* and lower and upper both >= the unit's observed results.
C4_UnitOrderAndFloor ==
    (call.kind = "unit" /\ Returned) =>
        \A j \in 1..Len(nonreporting_units) :
            LET seen == nonreporting_units[j].cols[call.estimand].results
            IN  /\ result.upper[j] >= result.lower[j]
                /\ result.lower[j] >= seen
                /\ result.upper[j] >= seen

\* C5: with no nonreporting units the aggregate call returns, as lower and as
\* upper, the results summed over the reporting and unexpected units of every
\* group, whether or not the cache is set.
C5_NoNonreportingReturnsObserved ==
    (call.kind = "aggregate" /\ Len(nonreporting_units) = 0) =>
        /\ result.kind = "tuple"
        /\ Len(result.key) = Cardinality({ KeyOf(units[j].keys, call.aggregate) :
                                               j \in 1..Len(units) })
        /\ \A j \in 1..Len(units) :
               \E r \in 1..Len(result.key) :
                   result.key[r] = KeyOf(units[j].keys, call.aggregate)
        /\ \A r \in 1..Len(result.key) :
               LET seen == GroupResults({"reporting", "unexpected"}, call.aggregate,
                                        call.estimand, result.key[r])
               IN  result.lower[r] = seen /\ result.upper[r] = seen

\* an aggregate call without nonreporting units on an instance that never
\* ran the unit call
C5_Witness ==
    /\ call.kind = "aggregate"
    /\ Len(nonreporting_units) = 0
    /\ ~CacheSet(cache)
    /\ result.kind = "tuple"
    /\ Len(result.lower) = 2

\* C6: every lower and upper bound returned by the unit call and by the
\* aggregate call, on every return path, is a whole number.
C6_WholeNumbers ==
    Returned =>
        \A r \in 1..Len(result.lower) : IsWhole(result.lower[r]) /\ IsWhole(result.upper[r])

\* C8: a unit call overwrites the cached bounds with the base bounds of its
\* estimand; an aggregate call leaves them as they are; an aggregate call with
\* nonreporting units computes from the bounds of the most recent unit call,
\* whatever its estimand; an aggregate call repeated with the same arguments
\* returns the same.
C8_CacheProtocol ==
    [][ /\ call'.kind = "unit" => cache' = BaseBounds(call'.estimand)
        /\ call'.kind = "aggregate" => cache' = cache
        /\ ( /\ call'.kind = "aggregate"
             /\ Len(nonreporting_units) > 0
             /\ history.unit # "none" ) =>
               result' = AggregateReturn(reporting_units, nonreporting_units,
                             unexpected_units, call'.aggregate, call'.alpha,
                             conformalization_data, call'.estimand,
                             BaseBounds(history.unit))
        /\ (call.kind = "aggregate" /\ call' = call) => result' = result
      ]_vars

\* an aggregate call for one estimand computed from the bounds a unit call
\* for the other estimand had cached
C8_Witness ==
    /\ call.kind = "aggregate"
    /\ call.estimand = "dem"
    /\ history.unit = "gop"
    /\ Len(nonreporting_units) > 0
    /\ cache = BaseBounds("gop")
    /\ result.kind = "PredictionIntervals"

---------------------------------------------------------------------------
(* math_utils.weighted_median.  Weights are whole multiples of            *)
(* 1 / (2 * HalfWeight), so HalfWeight stands for 0.5; the returned value  *)
(* is kept doubled, so the average of two elements is their sum.           *)

WeightTotal == 2 * HalfWeight

XValues == 1..MaxLen

\* the inputs: a non-empty x and as many weights, summing to 1
WmInputs ==
    { a \in UNION { [ x : [1..n -> XValues], weights : [1..n -> 0..WeightTotal] ] :
                        n \in 1..MaxLen } :
          SumSeq(a.weights) = WeightTotal }

\* np.argsort(x): the orders of the indices that sort x (equal elements in
\* either order: the default sort is not stable)
ArgSorts(x) ==
    { p \in [1..Len(x) -> 1..Len(x)] :
          /\ \A a, b \in 1..Len(x) : a # b => p[a] # p[b]
          /\ \A a \in 1..(Len(x) - 1) : x[p[a]] <= x[p[a + 1]] }

\* np.cumsum
CumSum(w) == [k \in 1..Len(w) |-> SumSeq(SubSeq(w, 1, k))]

\* x_sorted[k] with k counted from 1; past the end the code raises IndexError
ElementAt(x_sorted, k) ==
    IF k <= Len(x_sorted) THEN [kind |-> "return", twice |-> 2 * x_sorted[k]]
    ELSE [kind |-> "raise", error |-> "IndexError"]

\* lines 34-38: the last index with cumulative weight <= 0.5, the first index
\* when there is none
MedianIndex(weights_cumulative) ==
    LET le == { k \in 1..Len(weights_cumulative) : weights_cumulative[k] <= HalfWeight }
    IN  IF le = {} THEN 1 ELSE CHOOSE k \in le : \A j \in le : j <= k

\* lines 27-47
weighted_median(x, weights, indices_sorted) ==
    LET x_sorted == [k \in 1..Len(x) |-> x[indices_sorted[k]]]
        weights_sorted == [k \in 1..Len(x) |-> weights[indices_sorted[k]]]
        weights_cumulative == CumSum(weights_sorted)
        median_index == MedianIndex(weights_cumulative)
    IN  IF weights_cumulative[median_index] = HalfWeight
        THEN IF median_index + 1 <= Len(x)
             THEN [ kind |-> "return",
                    twice |-> x_sorted[median_index] + x_sorted[median_index + 1] ]
             ELSE [kind |-> "raise", error |-> "IndexError"]
        ELSE ElementAt(x_sorted, median_index + 1)

InitWM ==
    /\ wm \in { [pc |-> "called", x |-> a.x, weights |-> a.weights] : a \in WmInputs }
    /\ units = <<>>
    /\ conformalization_data = <<>>
    /\ cache = NoCache
    /\ call = NoCall
    /\ result = NoResult
    /\ pc = "idle"
    /\ i = 0
    /\ bounds = <<>>
    /\ gaussian_model = <<>>
    /\ modeled_bounds = <<>>
    /\ iter = NoIter
    /\ history = [unit |-> "none"]

WeightedMedian ==
    /\ wm.pc = "called"
    /\ \E indices_sorted \in ArgSorts(wm.x) :
           wm' = [ pc |-> "done", x |-> wm.x, weights |-> wm.weights,
                   indices_sorted |-> indices_sorted,
                   out |-> weighted_median(wm.x, wm.weights, indices_sorted) ]
    /\ UNCHANGED <<units, conformalization_data, cache, call, result, pc, i, bounds,
                   gaussian_model, modeled_bounds, iter, history>>

NextWM == WeightedMedian

SpecWM == InitWM /\ [][NextWM]_vars

\* C9: for a non-empty x and weights summing to 1 the call returns a value
\* (it does not index past the end of x); when the cumulative weight in sorted
\* order is exactly 0.5 at some index it returns the average of the sorted
\* elements at such an index and the next; when it is never 0.5 it returns the
\* first sorted element whose cumulative weight exceeds 0.5.
C9_WeightedMedian ==
    wm.pc = "done" =>
        LET n == Len(wm.x)
            xs == [k \in 1..n |-> wm.x[wm.indices_sorted[k]]]
            cum == CumSum([k \in 1..n |-> wm.weights[wm.indices_sorted[k]]])
            half == { k \in 1..n : cum[k] = HalfWeight }
            first == CHOOSE k \in 1..n :
                         cum[k] > HalfWeight /\ \A j \in 1..(k - 1) : cum[j] <= HalfWeight
        IN  /\ wm.out.kind = "return"
            /\ half # {} => \E k \in half : wm.out.twice = xs[k] + xs[k + 1]
            /\ half = {} => wm.out.twice = 2 * xs[first]

---------------------------------------------------------------------------
(* The unit call step by step, lines 29-82, with the arrays it handles as  *)
(* objects: call.heap holds the arrays, the locals and the two instance    *)
(* attributes hold references into it.  An operator that returns a new     *)
(* array allocates one; *= changes the array its left side refers to.      *)

\* a new array object
Alloc(heap, array) == Append(heap, array)

\* the arrays the instance attributes refer to (lines 60-61), as the
\* aggregate call reads them (lines 133-134)
Cached(c) ==
    [ set |-> TRUE,
      nonreporting_lower_bounds |-> c.heap[c.self.nonreporting_lower_bounds],
      nonreporting_upper_bounds |-> c.heap[c.self.nonreporting_upper_bounds] ]

NonreportingUnitChoices == { u \in UnitChoices : u.status = "nonreporting" }

InitUnit ==
    /\ units \in UNION { [1..n -> NonreportingUnitChoices] : n \in 1..NumUnits }
    /\ conformalization_data \in ConfChoices
    /\ cache = NoCache
    /\ call = NoCall
    /\ result = NoResult
    /\ pc = "idle"
    /\ i = 0
    /\ bounds = <<>>
    /\ gaussian_model = <<>>
    /\ modeled_bounds = <<>>
    /\ iter = NoIter
    /\ history = [unit |-> "none"]
    /\ wm = NoWm

\* lines 29-57: the base bounds, the fit and the corrections
UnitBegin(alpha, estimand) ==
    /\ pc \in {"idle", "returned", "raised"}
    /\ LET prediction_intervals == get_unit_prediction_interval_bounds(
                                       nonreporting_units, conformalization_data, estimand)
           heap == Alloc(Alloc(<<>>, prediction_intervals.lower), prediction_intervals.upper)
       IN  /\ gaussian_model' = GaussianModelFit(prediction_intervals.conformalization,
                                                 <<>>, TRUE)
           /\ call' = [ kind |-> "unit", alpha |-> alpha, estimand |-> estimand,
                        heap |-> heap,
                        prediction_intervals |-> [lower |-> 1, upper |-> 2],
                        corr |-> UnitCorrections(gaussian_model'[1], alpha),
                        self |-> [ nonreporting_lower_bounds |-> 0,
                                   nonreporting_upper_bounds |-> 0 ],
                        lower |-> 0, upper |-> 0 ]
    /\ result' = NoResult
    /\ pc' = "fitted"
    /\ UNCHANGED <<units, conformalization_data, cache, i, bounds, modeled_bounds, iter,
                   history, wm>>

\* SaveBounds placed after the correction: the attributes get the corrected arrays
SaveCorrectedBounds ==
    /\ pc = "fitted"
    /\ LET n == Len(call.heap)
           lower == [j \in 1..Len(nonreporting_units) |->
                        call.heap[call.prediction_intervals.lower][j]
                            - call.corr.lower_correction]
           upper == [j \in 1..Len(nonreporting_units) |->
                        call.heap[call.prediction_intervals.upper][j]
                            + call.corr.upper_correction]
       IN  call' = [call EXCEPT !.heap = Alloc(Alloc(call.heap, lower), upper),
                                !.self = [ nonreporting_lower_bounds |-> n + 1,
                                           nonreporting_upper_bounds |-> n + 2 ]]
    /\ cache' = Cached(call')
    /\ history' = [unit |-> call.estimand]
    /\ pc' = "saved"
    /\ UNCHANGED <<units, conformalization_data, result, i, bounds, gaussian_model,
                   modeled_bounds, iter, wm>>

\* lines 59-61: the attributes get copies of the base bounds
SaveBounds ==
    /\ pc = "fitted"
    /\ LET n == Len(call.heap)
       IN  call' = [call EXCEPT
                       !.heap = Alloc(Alloc(call.heap,
                                            call.heap[call.prediction_intervals.lower]),
                                      call.heap[call.prediction_intervals.upper]),
                       !.self = [ nonreporting_lower_bounds |-> n + 1,
                                  nonreporting_upper_bounds |-> n + 2 ]]
    /\ cache' = Cached(call')
    /\ history' = [unit |-> call.estimand]
    /\ pc' = "saved"
    /\ UNCHANGED <<units, conformalization_data, result, i, bounds, gaussian_model,
                   modeled_bounds, iter, wm>>

\* lines 63-65: the subtraction and the addition give new arrays
ApplyCorrection ==
    /\ pc = "saved"
    /\ LET n == Len(call.heap)
           lower == [j \in 1..Len(nonreporting_units) |->
                        call.heap[call.prediction_intervals.lower][j]
                            - call.corr.lower_correction]
           upper == [j \in 1..Len(nonreporting_units) |->
                        call.heap[call.prediction_intervals.upper][j]
                            + call.corr.upper_correction]
       IN  call' = [call EXCEPT !.heap = Alloc(Alloc(call.heap, lower), upper),
                                !.lower = n + 1, !.upper = n + 2]
    /\ cache' = Cached(call')
    /\ pc' = "corrected"
    /\ UNCHANGED <<units, conformalization_data, result, i, bounds, gaussian_model,
                   modeled_bounds, iter, history, wm>>

\* lines 67-69: lower *= total_voters and upper *= total_voters, in place
UnNormalize ==
    /\ pc = "corrected"
    /\ call' = [call EXCEPT
                   !.heap[call.lower] =
                       [j \in 1..Len(nonreporting_units) |->
                           @[j] * nonreporting_units[j].cols[call.estimand].total_voters],
                   !.heap[call.upper] =
                       [j \in 1..Len(nonreporting_units) |->
                           @[j] * nonreporting_units[j].cols[call.estimand].total_voters]]
    /\ cache' = Cached(call')
    /\ pc' = "unnormalized"
    /\ UNCHANGED <<units, conformalization_data, result, i, bounds, gaussian_model,
                   modeled_bounds, iter, history, wm>>

\* lines 71-78: np.maximum of the shifted bounds and the results, new arrays
MoveToVoteSpace ==
    /\ pc = "unnormalized"
    /\ LET n == Len(call.heap)
           lower == [j \in 1..Len(nonreporting_units) |->
                        Max(call.heap[call.lower][j]
                              + nonreporting_units[j].cols[call.estimand].last_election_results,
                            nonreporting_units[j].cols[call.estimand].results)]
           upper == [j \in 1..Len(nonreporting_units) |->
                        Max(call.heap[call.upper][j]
                              + nonreporting_units[j].cols[call.estimand].last_election_results,
                            nonreporting_units[j].cols[call.estimand].results)]
       IN  call' = [call EXCEPT !.heap = Alloc(Alloc(call.heap, lower), upper),
                                !.lower = n + 1, !.upper = n + 2]
    /\ cache' = Cached(call')
    /\ pc' = "floored"
    /\ UNCHANGED <<units, conformalization_data, result, i, bounds, gaussian_model,
                   modeled_bounds, iter, history, wm>>

\* lines 80-82: the rounded arrays are returned
UnitEnd ==
    /\ pc = "floored"
    /\ result' = [ kind |-> "PredictionIntervals",
                   lower |-> RoundAll(call.heap[call.lower]),
                   upper |-> RoundAll(call.heap[call.upper]) ]
    /\ cache' = Cached(call)
    /\ pc' = "returned"
    /\ UNCHANGED <<units, conformalization_data, call, i, bounds, gaussian_model,
                   modeled_bounds, iter, history, wm>>

NextUnit ==
    \/ \E alpha \in Alphas, estimand \in Estimands : UnitBegin(alpha, estimand)
    \/ SaveBounds
    \/ ApplyCorrection
    \/ UnNormalize
    \/ MoveToVoteSpace
    \/ UnitEnd
    \/ \E aggregate \in SpecAggregates, alpha \in Alphas, estimand \in Estimands :
           AggregateBegin(aggregate, alpha, estimand)
    \/ LoopStep
    \/ AggregateEnd

SpecUnit == InitUnit /\ [][NextUnit]_vars

\* the unit call has saved its bounds and not yet been followed by another call
UnitSaved ==
    /\ call.kind = "unit"
    /\ pc \in {"saved", "corrected", "unnormalized", "floored", "returned"}

\* total_voters_<estimand> times the base residual bounds of the estimand the
\* last unit call ran for, summed over the nonreporting units of a group
GroupBaseSum(key, lower) ==
    SumSeq([j \in 1..Len(nonreporting_units) |->
               IF KeyOf(nonreporting_units[j].keys, call.aggregate) = key
               THEN nonreporting_units[j].cols[call.estimand].total_voters
                        * (IF lower THEN nonreporting_units[j].cols[history.unit].lower
                                    ELSE nonreporting_units[j].cols[history.unit].upper)
               ELSE 0])

\* C11: from the moment the unit call saves them, through the correction, the
\* multiplication by total_voters, the shift, the clamp and the rounding, the
\* cached arrays are the unadjusted residual bounds of the base interval
\* computation; the aggregate call's per-group bounds are the sums of
\* total_voters times these unadjusted values.
C11_CacheIsUnadjusted ==
    /\ UnitSaved =>
           /\ cache = BaseBounds(call.estimand)
           /\ cache.nonreporting_lower_bounds =
                  get_unit_prediction_interval_bounds(
                      nonreporting_units, conformalization_data, call.estimand).lower
           /\ cache.nonreporting_upper_bounds =
                  get_unit_prediction_interval_bounds(
                      nonreporting_units, conformalization_data, call.estimand).upper
    /\ (call.kind = "aggregate" /\ pc = "loop") =>
           /\ cache = BaseBounds(history.unit)
           /\ Keys(bounds) = { KeyOf(nonreporting_units[j].keys, call.aggregate) :
                                   j \in 1..Len(nonreporting_units) }
           /\ \A r \in 1..Len(bounds) :
                  /\ bounds[r].nonreporting_aggregate_lower_bound
                         = GroupBaseSum(bounds[r].key, TRUE)
                  /\ bounds[r].nonreporting_aggregate_upper_bound
                         = GroupBaseSum(bounds[r].key, FALSE)

\* a unit call that has returned, whose correction, un-normalization, shift
\* and rounding each changed a bound of a unit while the cached arrays kept
\* the base bounds
C11_Witness ==
    /\ UnitSaved
    /\ pc = "returned"
    /\ Len(nonreporting_units) >= 2
    /\ call.corr.lower_correction # 0
    /\ \E j \in 1..Len(nonreporting_units) :
           /\ nonreporting_units[j].cols[call.estimand].total_voters > 1
           /\ nonreporting_units[j].cols[call.estimand].last_election_results > 0
           /\ cache.nonreporting_upper_bounds[j] # 0
           /\ result.lower[j] # cache.nonreporting_lower_bounds[j]
           /\ result.upper[j] # cache.nonreporting_upper_bounds[j]

====
